---- MODULE Spec2Model ----
(***************************************************************************)
(* uncomment_files.py: walk TARGET_DIR, and rewrite in place every .ts or  *)
(* .tsx file more than 95% of whose non-empty lines start with "//",       *)
(* removing the leading marker from each line.                            *)
(*                                                                         *)
(* Text is a sequence of one-character strings.  A file's content is the   *)
(* flat text on disk; readlines decodes it (universal newlines) and cuts   *)
(* it into lines, writelines concatenates (os.linesep is "\n" on the      *)
(* platform of TARGET_DIR, so nothing is translated on output).  Every     *)
(* path names a file of its own (no links).                                *)
(***************************************************************************)
EXTENDS Integers, Sequences, FiniteSets, TLC

VARIABLES tree, fs, pc, stack, root, files, file, path, lines, new_lines,
          count, out, handles, fs0, opened, nwrites, failed, before, prev

vars == <<tree, fs, pc, stack, root, files, file, path, lines, new_lines,
          count, out, handles, fs0, opened, nwrites, failed, before, prev>>

----------------------------------------------------------------------------
(* Bounds of the model *)

\* longest file content enumerated character by character
MaxLen == 4
\* most "//a" lines of a generated long file
MaxCommented == 21
\* most code lines of a generated long file
MaxCode == 2
\* longest file content of the runs repeated without end
MaxLiveLen == 3

----------------------------------------------------------------------------
(* Characters and str methods *)

SL == "/"
SP == " "
LF == "\n"
CR == "\r"

\* the characters str.strip() removes, among those of the model
Whitespace == {SP, LF, CR}

Alphabet == {SL, SP, "a", LF, CR}

RECURSIVE lstrip(_)
lstrip(s) ==
    IF s # <<>> /\ Head(s) \in Whitespace THEN lstrip(Tail(s)) ELSE s

RECURSIVE rstrip(_)
rstrip(s) ==
    IF s # <<>> /\ s[Len(s)] \in Whitespace
    THEN rstrip(SubSeq(s, 1, Len(s) - 1))
    ELSE s

\* str.strip()
strip(s) == rstrip(lstrip(s))

\* str.startswith(p)
startswith(s, p) == Len(s) >= Len(p) /\ SubSeq(s, 1, Len(p)) = p

\* str.endswith(p)
endswith(s, p) ==
    Len(s) >= Len(p) /\ SubSeq(s, Len(s) - Len(p) + 1, Len(s)) = p

\* the positions at which old occurs in s
occurrences(s, old) ==
    {i \in 1..(Len(s) - Len(old) + 1) : SubSeq(s, i, i + Len(old) - 1) = old}

\* the last occurrence (what str.rfind would give), 0 when there is none
find_last(s, old) ==
    LET occ == occurrences(s, old)
    IN  IF occ = {} THEN 0 ELSE CHOOSE i \in occ : \A j \in occ : j <= i

\* str.find(old), 1-based: the first occurrence, 0 when there is none
find(s, old) ==
    LET occ == occurrences(s, old)
    IN  IF occ = {} THEN 0 ELSE CHOOSE i \in occ : \A j \in occ : i <= j

\* str.replace(old, "", 1)
replace_first(s, old) ==
    LET i == find(s, old)
    IN  IF i = 0 THEN s
        ELSE SubSeq(s, 1, i - 1) \o SubSeq(s, i + Len(old), Len(s))

----------------------------------------------------------------------------
(* Text-mode file I/O *)

\* 1, 2, ..., n
Indices(n) == [i \in 1..n |-> i]

\* open(path, "r"): newline=None turns "\r\n" and a lone "\r" into "\n"
translate_newlines(s) ==
    LET kept == SelectSeq(Indices(Len(s)),
                          LAMBDA i : ~(s[i] = LF /\ i > 1 /\ s[i - 1] = CR))
    IN  [k \in 1..Len(kept) |-> IF s[kept[k]] = CR THEN LF ELSE s[kept[k]]]

\* cut decoded text after each "\n"; the terminator stays on its line, and
\* text after the last "\n" is a line without one
split_keepends(s) ==
    LET ends == SelectSeq(Indices(Len(s)),
                          LAMBDA i : s[i] = LF \/ i = Len(s))
    IN  [k \in 1..Len(ends) |->
            SubSeq(s, IF k = 1 THEN 1 ELSE ends[k - 1] + 1, ends[k])]

\* f.readlines() on a file opened with open(path, "r")
readlines(content) == split_keepends(translate_newlines(content))

\* f.writelines(new_lines) on a file opened with open(path, "w")
RECURSIVE writelines(_)
writelines(ls) == IF ls = <<>> THEN <<>> ELSE Head(ls) \o writelines(Tail(ls))

----------------------------------------------------------------------------
(* The two functions of the script *)

Marker == <<SL, SL>>
MarkerSpace == <<SL, SL, SP>>

\* the threshold test with >= in place of >
is_fully_commented_ge(ls) ==
    LET non_empty == SelectSeq(ls, LAMBDA l : strip(l) # <<>>)
        commented == SelectSeq(non_empty, LAMBDA l : startswith(strip(l), Marker))
    IN  IF non_empty = <<>> THEN FALSE
        ELSE Len(commented) * 100 >= 95 * Len(non_empty)

\* len(commented) / len(non_empty) > 0.95.  The quotient of two line counts is
\* correctly rounded and 0.95 is the double nearest 19/20, so the comparison of
\* doubles agrees with the comparison of the exact fractions.
is_fully_commented(ls) ==
    LET non_empty == SelectSeq(ls, LAMBDA l : strip(l) # <<>>)
        commented == SelectSeq(non_empty, LAMBDA l : startswith(strip(l), Marker))
    IN  IF non_empty = <<>> THEN FALSE
        ELSE Len(commented) * 100 > 95 * Len(non_empty)

\* uncomment_line that always removes the bare marker, never "// "
uncomment_line_nospace(line) ==
    IF startswith(strip(line), Marker) THEN replace_first(line, Marker) ELSE line

\* uncomment_line that returns every line as it is
uncomment_line_keep(line) == line

\* uncomment_line that removes the last occurrence instead of the first
uncomment_line_last(line) ==
    LET cut(old) == LET i == find_last(line, old)
                    IN  SubSeq(line, 1, i - 1) \o SubSeq(line, i + Len(old), Len(line))
    IN  IF startswith(strip(line), MarkerSpace) THEN cut(MarkerSpace)
        ELSE IF startswith(strip(line), Marker) THEN cut(Marker)
        ELSE line

uncomment_line(line) ==
    IF startswith(strip(line), MarkerSpace) THEN replace_first(line, MarkerSpace)
    ELSE IF startswith(strip(line), Marker) THEN replace_first(line, Marker)
    ELSE line

\* [uncomment_line(line) for line in lines]
Uncommented(ls) == [i \in 1..Len(ls) |-> uncomment_line(ls[i])]

----------------------------------------------------------------------------
(* The directory tree *)

TARGET_DIR == "/Volumes/Mayor/Build/portalpay-official/src"
SubDir == "/Volumes/Mayor/Build/portalpay-official/src/app"
Dirs == {TARGET_DIR, SubDir}

A_TS == <<"a", ".", "t", "s">>
B_TSX == <<"b", ".", "t", "s", "x">>
C_JS == <<"c", ".", "j", "s">>
D_TS_BAK == <<"d", ".", "t", "s", "~">>
Names == {A_TS, B_TSX, C_JS, D_TS_BAK}

\* a test that takes any name containing the extension's letters last
IsTargetLoose(name) == endswith(name, <<"s">>)

\* file.endswith(".tsx") or file.endswith(".ts")
IsTarget(name) ==
    endswith(name, <<".", "t", "s", "x">>) \/ endswith(name, <<".", "t", "s">>)

\* os.path.join(root, file)
join(dir, name) == <<dir, name>>

SeqRange(s) == {s[i] : i \in 1..Len(s)}

\* every path os.walk can yield a file name for
PathsOf(t) == UNION {{join(d, n) : n \in SeqRange(t[d].names)} : d \in Dirs}

\* one directory level under TARGET_DIR; each listing in the order scandir gives
TreeOf(rootNames, subNames) ==
    [d \in Dirs |-> IF d = TARGET_DIR
                    THEN [dirs |-> <<SubDir>>, names |-> rootNames]
                    ELSE [dirs |-> <<>>, names |-> subNames]]

Trees == {TreeOf(<<x, y>>, <<z>>) :
             x \in Names, y \in Names \ {C_JS}, z \in {B_TSX, C_JS}} \
         {TreeOf(<<x, x>>, <<z>>) : x \in Names, z \in Names}

----------------------------------------------------------------------------
(* File contents the runs start from *)

Text(n) == UNION {[1..k -> Alphabet] : k \in 0..n}

RECURSIVE Rep(_, _)
Rep(s, n) == IF n = 0 THEN <<>> ELSE s \o Rep(s, n - 1)

\* c commented lines followed by k lines of code
LongFiles ==
    {Rep(<<SL, SL, "a", LF>>, c) \o Rep(<<"a", LF>>, k) :
        c \in 1..MaxCommented, k \in 0..MaxCode}

\* the literal lines of the scenarios: an indented marker, a marker after
\* code that itself holds "// ", nested markers, a later marker, a last line
\* without "\n", "\r\n" and "\r" terminators
ScenarioFiles ==
    { <<SP, SP, SL, SL, SP, "f", "o", "o", LF>>,
      <<SL, SL, SP, "c", "o", "n", "s", "t", SP, "x", SP, "=", SP, "1", LF>>,
      <<"x", SL, SL, SP, "y", SP, SL, SL, SP, "z", LF>>,
      <<SL, SL, SP, SL, SL, SP, "a", LF>>,
      <<SL, SL, SP, SL, SL, SP, "a", LF, SL, SL, SP, "b", LF>>,
      <<SL, SL, SP, "a", SP, SL, SL, SP, "b", LF>>,
      <<SL, SL, SP, "a", LF, SL, SL>>,
      <<SL, SL, SP, "a", CR, LF, SL, SL, "b", CR>> }

RichContents == Text(MaxLen) \cup LongFiles \cup ScenarioFiles

SmallContents ==
    { <<>>, <<"a", LF>>, <<SL, SL, "a", LF>>, <<SL, SL, SL, SL>> }

----------------------------------------------------------------------------
(* The run *)

Uncommenting == "Uncommenting: "
Total == "Total files uncommented: "

\* the state of a fresh process over file system f and tree t
InitRun(t, f) ==
    /\ tree = t
    /\ fs = f
    /\ pc = "walk"
    /\ stack = <<TARGET_DIR>>
    /\ root = ""
    /\ files = <<>>
    /\ file = <<>>
    /\ path = <<>>
    /\ lines = <<>>
    /\ new_lines = <<>>
    /\ count = 0
    /\ out = <<>>
    /\ handles = {}
    /\ fs0 = f
    /\ opened = {}
    /\ nwrites = [p \in DOMAIN f |-> 0]
    /\ failed = {}
    /\ before = f
    /\ prev = {}

Init == \E t \in Trees : \E f \in [PathsOf(t) -> SmallContents] : InitRun(t, f)

\* 19 commented lines and one line of code: 19 / 20 is 0.95 exactly
Nineteen == Rep(<<SL, SL, "a", LF>>, 19) \o <<"a", LF>>

QuietTree == TreeOf(<<A_TS, C_JS>>, <<B_TSX>>)

InitQuiet ==
    \E c \in RichContents :
        InitRun(QuietTree,
                [p \in PathsOf(QuietTree) |->
                    IF p = join(TARGET_DIR, A_TS) THEN c
                    ELSE IF p = join(SubDir, B_TSX) THEN Nineteen
                    ELSE <<SL, SL, "a", LF>>])

\* a commented line whose text is itself a commented line
Nested == <<SL, SL, SP, SL, SL, "a", LF>>

\* the short contents, beside a file that takes two runs to settle
InitLive ==
    \E c \in Text(MaxLiveLen) \cup ScenarioFiles :
        InitRun(QuietTree,
                [p \in PathsOf(QuietTree) |->
                    IF p = join(TARGET_DIR, A_TS) THEN c
                    ELSE IF p = join(SubDir, B_TSX) THEN Nested
                    ELSE <<SL, SL, "a", LF>>])

Locals == <<file, path, lines, new_lines>>
History == <<fs0, opened, nwrites, failed, before, prev>>

\* os.walk resumes: scandir(top) of the next directory, then yield
WalkList ==
    /\ pc = "walk" /\ stack # <<>>
    /\ root' = Head(stack)
    /\ files' = tree[Head(stack)].names
    /\ stack' = tree[Head(stack)].dirs \o Tail(stack)
    /\ pc' = "files"
    /\ UNCHANGED <<tree, fs, Locals, count, out, handles, History>>

\* scandir(top) raises OSError: os.walk has no onerror and goes on
WalkListFail ==
    /\ pc = "walk" /\ stack # <<>>
    /\ stack' = Tail(stack)
    /\ failed' = failed \cup {"list"}
    /\ UNCHANGED <<tree, fs, pc, root, files, Locals, count, out, handles,
                   fs0, opened, nwrites, before, prev>>

\* os.walk is exhausted: the outer for loop ends
WalkEnd ==
    /\ pc = "walk" /\ stack = <<>>
    /\ pc' = "summary"
    /\ UNCHANGED <<tree, fs, stack, root, files, Locals, count, out, handles,
                   History>>

\* for file in files: a name that fails the extension test
SkipFile ==
    /\ pc = "files" /\ files # <<>> /\ ~IsTarget(Head(files))
    /\ file' = Head(files)
    /\ files' = Tail(files)
    /\ UNCHANGED <<tree, fs, pc, stack, root, path, lines, new_lines, count,
                   out, handles, History>>

\* for file in files: a .ts or .tsx name; path = os.path.join(root, file)
SelectFile ==
    /\ pc = "files" /\ files # <<>> /\ IsTarget(Head(files))
    /\ file' = Head(files)
    /\ files' = Tail(files)
    /\ path' = join(root, Head(files))
    /\ pc' = "open_r"
    /\ UNCHANGED <<tree, fs, stack, root, lines, new_lines, count, out,
                   handles, History>>

\* the inner for loop ends: back to os.walk
FilesDone ==
    /\ pc = "files" /\ files = <<>>
    /\ pc' = "walk"
    /\ UNCHANGED <<tree, fs, stack, root, files, Locals, count, out, handles,
                   History>>

\* with open(path, "r") as f
OpenRead ==
    /\ pc = "open_r"
    /\ handles' = handles \cup {<<path, "r">>}
    /\ opened' = opened \cup {<<path, "r">>}
    /\ pc' = "read"
    /\ UNCHANGED <<tree, fs, stack, root, files, Locals, count, out, fs0,
                   nwrites, failed, before, prev>>

\* open(path, "r") raises and the error is swallowed: on to the next file
OpenReadFail_skip ==
    /\ pc = "open_r"
    /\ failed' = failed \cup {"read"}
    /\ pc' = "files"
    /\ UNCHANGED <<tree, fs, stack, root, files, Locals, count, out, handles,
                   fs0, opened, nwrites, before, prev>>

\* open(path, "r") raises
OpenReadFail ==
    /\ pc = "open_r"
    /\ failed' = failed \cup {"read"}
    /\ pc' = "crashed"
    /\ UNCHANGED <<tree, fs, stack, root, files, Locals, count, out, handles,
                   fs0, opened, nwrites, before, prev>>

\* lines = f.readlines()
ReadLines ==
    /\ pc = "read"
    /\ lines' = readlines(fs[path])
    /\ pc' = "close_r"
    /\ UNCHANGED <<tree, fs, stack, root, files, file, path, new_lines, count,
                   out, handles, History>>

\* f.readlines() raises (I/O or decoding); the with block closes f
ReadLinesFail ==
    /\ pc = "read"
    /\ handles' = handles \ {<<path, "r">>}
    /\ failed' = failed \cup {"read"}
    /\ pc' = "crashed"
    /\ UNCHANGED <<tree, fs, stack, root, files, Locals, count, out, fs0,
                   opened, nwrites, before, prev>>

\* the read ends and f stays open (no with block)
CloseRead_leak ==
    /\ pc = "close_r"
    /\ pc' = "classify"
    /\ UNCHANGED <<tree, fs, stack, root, files, Locals, count, out, handles,
                   History>>

\* the with block of the read ends
CloseRead ==
    /\ pc = "close_r"
    /\ handles' = handles \ {<<path, "r">>}
    /\ pc' = "classify"
    /\ UNCHANGED <<tree, fs, stack, root, files, Locals, count, out, History>>

\* if is_fully_commented(lines)
Classify ==
    /\ pc = "classify"
    /\ pc' = IF is_fully_commented(lines) THEN "print" ELSE "files"
    /\ UNCHANGED <<tree, fs, stack, root, files, Locals, count, out, handles,
                   History>>

\* print(f"Uncommenting: {path}")
PrintPath ==
    /\ pc = "print"
    /\ out' = Append(out, <<Uncommenting, path>>)
    /\ pc' = "transform"
    /\ UNCHANGED <<tree, fs, stack, root, files, Locals, count, handles,
                   History>>

\* new_lines = [uncomment_line(line) for line in lines]
Transform ==
    /\ pc = "transform"
    /\ new_lines' = Uncommented(lines)
    /\ pc' = "open_w"
    /\ UNCHANGED <<tree, fs, stack, root, files, file, path, lines, count, out,
                   handles, History>>

\* with open(path, "w") as f: the file is truncated
OpenWrite ==
    /\ pc = "open_w"
    /\ fs' = [fs EXCEPT ![path] = <<>>]
    /\ handles' = handles \cup {<<path, "w">>}
    /\ opened' = opened \cup {<<path, "w">>}
    /\ pc' = "write"
    /\ UNCHANGED <<tree, stack, root, files, Locals, count, out, fs0, nwrites,
                   failed, before, prev>>

\* open(path, "w") raises: the file is as it was
OpenWriteFail ==
    /\ pc = "open_w"
    /\ failed' = failed \cup {"write"}
    /\ pc' = "crashed"
    /\ UNCHANGED <<tree, fs, stack, root, files, Locals, count, out, handles,
                   fs0, opened, nwrites, before, prev>>

\* f.writelines(new_lines)
WriteLines ==
    /\ pc = "write"
    /\ fs' = [fs EXCEPT ![path] = writelines(new_lines)]
    /\ pc' = "close_w"
    /\ UNCHANGED <<tree, stack, root, files, Locals, count, out, handles,
                   History>>

\* the write raises with some prefix of the text on disk; the with block
\* closes f
WriteLinesFail ==
    /\ pc = "write"
    /\ \E k \in 0..Len(writelines(new_lines)) :
           fs' = [fs EXCEPT ![path] = SubSeq(writelines(new_lines), 1, k)]
    /\ handles' = handles \ {<<path, "w">>}
    /\ failed' = failed \cup {"write"}
    /\ pc' = "crashed"
    /\ UNCHANGED <<tree, stack, root, files, Locals, count, out, fs0, opened,
                   nwrites, before, prev>>

\* the with block of the write ends: the rewrite of path is complete
CloseWrite ==
    /\ pc = "close_w"
    /\ handles' = handles \ {<<path, "w">>}
    /\ nwrites' = [nwrites EXCEPT ![path] = @ + 1]
    /\ pc' = "count"
    /\ UNCHANGED <<tree, fs, stack, root, files, Locals, count, out, fs0,
                   opened, failed, before, prev>>

\* count += 2
Increment_twice ==
    /\ pc = "count"
    /\ count' = count + 2
    /\ pc' = "files"
    /\ UNCHANGED <<tree, fs, stack, root, files, Locals, out, handles, History>>

\* count += 1
Increment ==
    /\ pc = "count"
    /\ count' = count + 1
    /\ pc' = "files"
    /\ UNCHANGED <<tree, fs, stack, root, files, Locals, out, handles, History>>

\* print(f"Total files uncommented: {count}")
Summary ==
    /\ pc = "summary"
    /\ out' = Append(out, <<Total, count>>)
    /\ pc' = "done"
    /\ UNCHANGED <<tree, fs, stack, root, files, Locals, count, handles,
                   History>>

\* the script is run again on the files as the last run left them
StartRun ==
    /\ pc \in {"done", "crashed"}
    /\ pc' = "walk"
    /\ stack' = <<TARGET_DIR>>
    /\ root' = ""
    /\ files' = <<>>
    /\ file' = <<>>
    /\ path' = <<>>
    /\ lines' = <<>>
    /\ new_lines' = <<>>
    /\ count' = 0
    /\ out' = <<>>
    /\ handles' = {}
    /\ fs0' = fs
    /\ opened' = {}
    /\ nwrites' = [p \in DOMAIN fs |-> 0]
    /\ failed' = {}
    /\ before' = fs0
    /\ prev' = {p \in DOMAIN fs : nwrites[p] >= 1}
    /\ UNCHANGED <<tree, fs>>

\* the steps of a run in which no call raises
Step ==
    \/ WalkList \/ WalkEnd \/ SkipFile \/ SelectFile \/ FilesDone
    \/ OpenRead \/ ReadLines \/ CloseRead \/ Classify
    \/ PrintPath \/ Transform \/ OpenWrite \/ WriteLines \/ CloseWrite
    \/ Increment \/ Summary

\* the steps at which a call raises
Fault ==
    \/ WalkListFail \/ OpenReadFail \/ ReadLinesFail
    \/ OpenWriteFail \/ WriteLinesFail

Next == Step \/ Fault \/ StartRun

NextQuiet == Step \/ StartRun

Spec == Init /\ [][Next]_vars

\* runs without I/O failures, each started again when the last has ended
SpecQuiet == InitQuiet /\ [][NextQuiet]_vars

\* the same runs; the interpreter always takes its next step, and whoever
\* repeats the script always starts the next run
SpecLive == InitLive /\ [][NextQuiet]_vars /\ WF_vars(NextQuiet)

----------------------------------------------------------------------------
(* Vocabulary of the properties *)

\* name is some text followed by ".ts" or ".tsx"
EndsInTs(name) ==
    \E k \in 0..Len(name) :
        SubSeq(name, k + 1, Len(name)) \in
            {<<".", "t", "s">>, <<".", "t", "s", "x">>}

TargetPaths == {p \in DOMAIN fs : EndsInTs(p[2])}

\* the content of p qualified when the run started
QualifiedAtStart(p) == is_fully_commented(readlines(fs0[p]))

\* the lines of ls that are not blank, and those of them that start with "//"
NonEmptyCount(ls) == Cardinality({i \in 1..Len(ls) : strip(ls[i]) # <<>>})
CommentedCount(ls) ==
    Cardinality({i \in 1..Len(ls) :
                    strip(ls[i]) # <<>> /\ startswith(strip(ls[i]), Marker)})

\* strictly more than 95 in 100 of at least one non-empty line
AboveThreshold(ls) ==
    NonEmptyCount(ls) > 0 /\ 100 * CommentedCount(ls) > 95 * NonEmptyCount(ls)

\* p has been read and classified in this run
Classified(p) ==
    <<p, "r">> \in opened /\ ~(path = p /\ pc \in {"read", "close_r", "classify"})

\* the run has decided to rewrite p
Rewriting(p) ==
    \/ <<p, "w">> \in opened
    \/ path = p /\ pc \in {"print", "transform", "open_w"}

\* the console line of p has been printed in this run
Announced(p) == \E i \in 1..Len(out) : out[i][1] = Uncommenting /\ out[i][2] = p

\* the run has printed its summary line
Summarised == \E i \in 1..Len(out) : out[i][1] = Total

\* the rewrites completed in this run
Completed == Cardinality({p \in DOMAIN fs : nwrites[p] >= 1})

\* new_lines holds the transform of lines, for the file at path
Transformed == pc \in {"open_w", "write", "close_w", "count"}

----------------------------------------------------------------------------
(* C1 *)

\* C1: a visited .ts/.tsx file is rewritten if and only if it has a non-empty
\* line and strictly more than 95% of its non-empty lines start with "//"; at
\* the end of a run every target file has been rewritten exactly under that
\* condition (19 of 20 is not enough, 20 of 21 is).
C1_RewrittenIffAboveThreshold ==
    /\ \A p \in TargetPaths :
           Classified(p) => (Rewriting(p) <=> AboveThreshold(readlines(fs0[p])))
    /\ pc = "done" =>
           \A p \in TargetPaths :
               nwrites[p] >= 1 <=> AboveThreshold(readlines(fs0[p]))

\* a finished run that rewrote a file of 20 commented lines in 21 and left
\* one of 19 in 20 alone
C1_Witness ==
    /\ pc = "done"
    /\ \E p \in TargetPaths :
           /\ CommentedCount(readlines(fs0[p])) = 20
           /\ NonEmptyCount(readlines(fs0[p])) = 21
           /\ nwrites[p] = 1 /\ fs[p] # fs0[p]
    /\ \E p \in TargetPaths :
           /\ CommentedCount(readlines(fs0[p])) = 19
           /\ NonEmptyCount(readlines(fs0[p])) = 20
           /\ <<p, "r">> \in opened /\ nwrites[p] = 0 /\ fs[p] = fs0[p]

----------------------------------------------------------------------------
(* C2 *)

\* the text after the leading marker of line starts, after blanks, with "//"
NestedMarker(line) ==
    /\ startswith(lstrip(line), Marker)
    /\ startswith(lstrip(SubSeq(lstrip(line), 3, Len(lstrip(line)))), Marker)

\* line is not blank once its leading marker, if it has one, is taken away
RemainderNonEmpty(line) ==
    IF startswith(lstrip(line), Marker)
    THEN strip(SubSeq(lstrip(line), 3, Len(lstrip(line)))) # <<>>
    ELSE strip(line) # <<>>

\* more than 95% of the lines of content that stay non-empty without their
\* marker have a second marker behind the first
MostlyNested(content) ==
    LET ls == readlines(content)
        remaining == Cardinality({i \in 1..Len(ls) : RemainderNonEmpty(ls[i])})
        nested == Cardinality({i \in 1..Len(ls) : NestedMarker(ls[i])})
    IN  remaining > 0 /\ 100 * nested > 95 * remaining

\* C2 as stated: a file rewritten by one run is not rewritten by the next run
\* (the process applied twice gives what it gives applied once).
C2_SecondRunNoOp ==
    \A p \in prev : <<p, "w">> \notin opened /\ ~Rewriting(p)

\* C2, amended: a file rewritten by one run is left alone by the next run,
\* unless more than 95% of its lines that are still non-empty after the
\* rewrite had a second "//" directly (or after blanks) behind their leading
\* marker; such a file is rewritten again.
C2_SecondRunNoOpUnlessNested ==
    \A p \in prev :
        /\ Classified(p) => (Rewriting(p) <=> MostlyNested(before[p]))
        /\ ~MostlyNested(before[p]) =>
               /\ <<p, "w">> \notin opened
               /\ fs[p] = fs0[p]
        /\ pc = "done" => (nwrites[p] = 1 <=> MostlyNested(before[p]))

\* the run after a rewrite has read the rewritten file, one line of which
\* still starts with "//", and finished without touching it
C2_Witness ==
    /\ pc = "done"
    /\ \E p \in prev :
           /\ \E i \in 1..Len(readlines(before[p])) :
                  NestedMarker(readlines(before[p])[i])
           /\ ~MostlyNested(before[p])
           /\ before[p] # fs0[p]
           /\ <<p, "r">> \in opened /\ nwrites[p] = 0 /\ fs[p] = fs0[p]

----------------------------------------------------------------------------
(* C3 *)

\* r is line without its first occurrence of old
RemovedFirst(line, old, r) ==
    \E i \in occurrences(line, old) :
        /\ \A j \in occurrences(line, old) : i <= j
        /\ Len(r) = Len(line) - Len(old)
        /\ \A k \in 1..Len(r) : r[k] = IF k < i THEN line[k] ELSE line[k + Len(old)]

\* the three cases of uncomment_line, the first that matches
ThreeCases(line, r) ==
    \/ /\ startswith(strip(line), MarkerSpace)
       /\ RemovedFirst(line, MarkerSpace, r)
    \/ /\ ~startswith(strip(line), MarkerSpace)
       /\ startswith(strip(line), Marker)
       /\ RemovedFirst(line, Marker, r)
    \/ /\ ~startswith(strip(line), Marker)
       /\ r = line

\* the blanks line begins with
LeadingBlanks(line) == SubSeq(line, 1, Len(line) - Len(lstrip(line)))

IndentedFoo == <<SP, SP, SL, SL, SP, "f", "o", "o", LF>>
Foo == <<SP, SP, "f", "o", "o", LF>>

\* C3: each line of a rewritten file is the original line, as read, put
\* through the three cases of uncomment_line (first match wins), in order, and
\* the file holds exactly these lines; blanks before the marker stay
\* ("  // foo" becomes "  foo").
C3_ThreeCasesInOrder ==
    /\ Transformed =>
           /\ lines = readlines(fs0[path])
           /\ Len(new_lines) = Len(lines)
           /\ \A i \in 1..Len(lines) :
                  /\ ThreeCases(lines[i], new_lines[i])
                  /\ startswith(new_lines[i], LeadingBlanks(lines[i]))
                  /\ lines[i] = IndentedFoo => new_lines[i] = Foo
    /\ pc \in {"close_w", "count"} => fs[path] = writelines(new_lines)
    /\ \A p \in DOMAIN fs :
           nwrites[p] >= 1 =>
               LET ls == readlines(fs0[p])
                   r == Uncommented(ls)
               IN  /\ fs[p] = writelines(r)
                   /\ \A i \in 1..Len(ls) : ThreeCases(ls[i], r[i])

\* the file holding "  // foo" has been rewritten to "  foo"
C3_Witness ==
    /\ pc = "count"
    /\ lines = <<IndentedFoo>>
    /\ new_lines = <<Foo>>
    /\ fs[path] = Foo

----------------------------------------------------------------------------
(* C8 *)

\* line falls under case 1 or 2 of uncomment_line
MarkerLine(line) == startswith(strip(line), Marker)

\* what line loses: "// " in case 1, "//" in case 2
RemovedText(line) ==
    IF startswith(strip(line), MarkerSpace) THEN MarkerSpace ELSE Marker

\* the position of the first character of line that is not a blank
MarkerAt(line) == Len(line) - Len(lstrip(line)) + 1

\* the removed text occurs in line before the marker the line starts with
EarlierOccurrence(line) ==
    /\ MarkerLine(line)
    /\ \E i \in occurrences(line, RemovedText(line)) : i < MarkerAt(line)

\* line without the Len(old) characters at position i
Without(line, i, old) ==
    SubSeq(line, 1, i - 1) \o SubSeq(line, i + Len(old), Len(line))

\* C8 as stated: the removal is no anchored strip, for among the lines the
\* script can read there is one of case 1 or 2 with an occurrence of the
\* removed text before its marker, and that occurrence is the one removed.
C8_EarlierOccurrenceRemoved ==
    pc = "walk" =>
        \E c \in RichContents :
            \E i \in 1..Len(readlines(c)) :
                LET line == readlines(c)[i]
                IN  /\ EarlierOccurrence(line)
                    /\ uncomment_line(line) #
                           Without(line, MarkerAt(line), RemovedText(line))

\* C8, amended: the removal is a first-occurrence replace, and in a line of
\* case 1 or 2 the first occurrence is always the marker the line starts
\* with: nothing occurs before it, later occurrences stay, and a line where
\* "//" comes after other text is not changed at all.
C8_FirstOccurrenceIsTheMarker ==
    Transformed =>
        \A i \in 1..Len(lines) :
            IF MarkerLine(lines[i])
            THEN /\ ~EarlierOccurrence(lines[i])
                 /\ find(lines[i], RemovedText(lines[i])) = MarkerAt(lines[i])
                 /\ new_lines[i] =
                        Without(lines[i], MarkerAt(lines[i]), RemovedText(lines[i]))
            ELSE new_lines[i] = lines[i]

\* a rewritten line that holds "// " twice: the one it starts with is gone,
\* the later one is kept
C8_Witness ==
    /\ pc = "count"
    /\ lines = << <<SL, SL, SP, "a", SP, SL, SL, SP, "b", LF>> >>
    /\ new_lines = << <<"a", SP, SL, SL, SP, "b", LF>> >>

----------------------------------------------------------------------------
(* C9 *)

\* line with the marker cut off behind its leading blanks
AnchoredStrip(line) ==
    LET rest == lstrip(line)
    IN  IF startswith(strip(line), MarkerSpace)
        THEN LeadingBlanks(line) \o SubSeq(rest, 4, Len(rest))
        ELSE IF startswith(strip(line), Marker)
        THEN LeadingBlanks(line) \o SubSeq(rest, 3, Len(rest))
        ELSE line

\* every line handed to uncomment_line comes back as its anchored strip
AnchoredEverywhere ==
    Transformed =>
        /\ Len(new_lines) = Len(lines)
        /\ \A i \in 1..Len(lines) : new_lines[i] = AnchoredStrip(lines[i])

\* the last line of the content is "//" with no line terminator
EndsWithBareMarker(content) ==
    LET ls == readlines(content)
    IN  ls # <<>> /\ ls[Len(ls)] = Marker

\* C9 as stated: uncomment_line is an anchored strip, and a rewritten file
\* has as many lines as the original.
C9_AnchoredSameLineCount ==
    /\ AnchoredEverywhere
    /\ \A p \in DOMAIN fs :
           nwrites[p] >= 1 => Len(readlines(fs[p])) = Len(readlines(fs0[p]))

\* C9, amended: uncomment_line is an anchored strip (blanks before the
\* marker, the text after it and the line terminator, as read, are kept),
\* and a rewritten file has as many lines as the original, except that a
\* last line "//" without terminator becomes empty and is gone.
C9_AnchoredLineCountButLast ==
    /\ AnchoredEverywhere
    /\ \A p \in DOMAIN fs :
           nwrites[p] >= 1 =>
               Len(readlines(fs[p])) =
                   Len(readlines(fs0[p])) -
                       (IF EndsWithBareMarker(fs0[p]) THEN 1 ELSE 0)

\* a rewritten file of two lines, the second "//" without terminator: one
\* line is left
C9_Witness ==
    /\ pc = "count"
    /\ Len(lines) = 2
    /\ lines[2] = Marker
    /\ new_lines[1] = AnchoredStrip(lines[1]) /\ new_lines[1] # lines[1]
    /\ Len(readlines(fs[path])) = 1

----------------------------------------------------------------------------
(* C10 *)

\* no file the walk visits qualifies, and the run has counted nothing
Quiescent ==
    /\ \A p \in TargetPaths : ~is_fully_commented(readlines(fs[p]))
    /\ count = 0
    /\ pc = "done" => out = << <<Total, 0>> >>

\* C10: every completed rewrite leaves the file strictly shorter than the run
\* found it, and runs repeated without end reach a point from which no
\* target file qualifies and every run reports 0.
C10_FixedPoint ==
    /\ [][pc = "close_w" => Len(fs'[path]) < Len(fs0[path])]_vars
    /\ <>[]Quiescent

\* a run that follows a run with a rewrite, and ends reporting 0
C10_Witness ==
    /\ pc = "done"
    /\ prev # {}
    /\ \E p \in prev : Len(fs[p]) < Len(before[p])
    /\ out = << <<Total, 0>> >>
    /\ \A p \in TargetPaths : ~is_fully_commented(readlines(fs[p]))

----------------------------------------------------------------------------
(* C4 *)

\* C4: a file whose name does not end in .ts or .tsx is never opened, a
\* target file that does not qualify is read and never written; either keeps
\* the content it had when the run started, gets no console line and no
\* count, and the counter moves only for the qualifying target file at hand.
C4_Frame ==
    /\ [](\A p \in DOMAIN fs :
            /\ ~EndsInTs(p[2]) =>
                   /\ <<p, "r">> \notin opened /\ <<p, "w">> \notin opened
                   /\ fs[p] = fs0[p] /\ nwrites[p] = 0 /\ ~Announced(p)
            /\ EndsInTs(p[2]) /\ ~QualifiedAtStart(p) =>
                   /\ <<p, "w">> \notin opened
                   /\ fs[p] = fs0[p] /\ nwrites[p] = 0 /\ ~Announced(p)
                   /\ pc = "done" /\ failed = {} => <<p, "r">> \in opened)
    /\ [][count' > count => EndsInTs(path[2]) /\ QualifiedAtStart(path)]_vars

\* a finished run that passed over a qualifying .js file, read a .ts file
\* that does not qualify, and rewrote another file
C4_Witness ==
    /\ pc = "done"
    /\ count = 1
    /\ \E p \in DOMAIN fs :
           /\ ~EndsInTs(p[2]) /\ QualifiedAtStart(p)
           /\ <<p, "r">> \notin opened /\ fs[p] = fs0[p]
    /\ \E p \in DOMAIN fs :
           /\ EndsInTs(p[2]) /\ ~QualifiedAtStart(p) /\ fs0[p] # <<>>
           /\ <<p, "r">> \in opened /\ fs[p] = fs0[p]

----------------------------------------------------------------------------
(* C5 *)

\* C5 as stated: in every state the counter is the number of files whose
\* rewrite has completed in this run.
C5_CountIsCompleted == count = Completed

\* C5, amended: the counter is the number of completed rewrites, except in
\* the step between the end of a write and its count += 1, where it is one
\* behind; within a run it starts at 0, never decreases and grows by 1 at a
\* time; no file is rewritten twice in a run; a run without failures reports
\* the number of target files that qualified on their initial content.
C5_CountLagsByAtMostOne ==
    /\ [](/\ count = Completed - (IF pc = "count" THEN 1 ELSE 0)
          /\ \A p \in DOMAIN fs : nwrites[p] <= 1
          /\ \A i \in 1..Len(out) : \A j \in 1..Len(out) :
                 out[i] = out[j] => i = j
          /\ opened = {} => count = 0
          /\ pc = "done" /\ failed = {} =>
                 /\ \A p \in TargetPaths : nwrites[p] = 1 <=> QualifiedAtStart(p)
                 /\ count = Cardinality({p \in TargetPaths : QualifiedAtStart(p)})
                 /\ out[Len(out)] = <<Total, count>>)
    /\ [][pc \notin {"done", "crashed"} =>
             /\ count' \in {count, count + 1}
             /\ count' = count + 1 <=> pc = "count"]_vars

\* a finished run without failures that rewrote two files and reports 2
C5_Witness ==
    /\ pc = "done"
    /\ failed = {}
    /\ count = 2
    /\ Completed = 2
    /\ out[Len(out)] = <<Total, 2>>

----------------------------------------------------------------------------
(* C6 *)

RewrittenKept ==
    \A p \in DOMAIN fs :
        nwrites[p] >= 1 => fs[p] = writelines(Uncommented(readlines(fs0[p])))

----------------------------------------------------------------------------
(* C7 *)

\* every path opened so far, but path, is finished: not to be rewritten, or
\* rewritten, closed and counted
OthersFinished ==
    \A a \in opened :
        a[1] # path =>
            /\ <<a[1], "r">> \notin handles /\ <<a[1], "w">> \notin handles
            /\ QualifiedAtStart(a[1]) <=> nwrites[a[1]] = 1

\* C7: at most one handle is open, on the file at hand; a file is opened
\* only when every file before it is finished; the read handle is closed
\* before the write handle is opened; the console line precedes the write;
\* the counter moves only after the write has completed, so that a failed
\* write leaves the line printed and the counter as it was.
C7_Ordering ==
    /\ [](/\ Cardinality(handles) <= 1
          /\ \A h \in handles : h[1] = path
          /\ pc \notin {"done", "crashed"} => OthersFinished
          /\ \A p \in DOMAIN fs :
                 <<p, "w">> \in opened => <<p, "r">> \in opened /\ Announced(p)
          /\ pc = "crashed" /\ "write" \in failed =>
                 /\ out[Len(out)] = <<Uncommenting, path>>
                 /\ nwrites[path] = 0
                 /\ count = Len(out) - 1)
    /\ [][/\ opened' # opened /\ opened # {} => handles = {}
          /\ count' = count + 1 =>
                 nwrites[path] = 1 /\ handles = {} /\ Announced(path)]_vars

\* a write that failed after one file had been rewritten and counted: two
\* console lines, a count of one
C7_Witness ==
    /\ pc = "crashed"
    /\ "write" \in failed
    /\ count = 1
    /\ Len(out) = 2
    /\ out[2] = <<Uncommenting, path>>

====
